---- MODULE Spec2Model ----
(***************************************************************************)
(* Model of uefi-rs data_types: the Character kinds Char8 / Char16         *)
(* (chars.rs), the NUL-terminated string view CStr and the str -> CStr     *)
(* encoder `encode` (strs.rs).                                             *)
(*                                                                         *)
(* A Rust `str` is modelled as the sequence of its Unicode scalar values;  *)
(* byte offsets are computed from the UTF-8 width of each scalar.  An      *)
(* integer buffer is a sequence of integers (TLA+ index = Rust index + 1). *)
(***************************************************************************)
EXTENDS Integers, Sequences, FiniteSets, TLC

(***************************************************************************)
(* Bounds of the model                                                     *)
(***************************************************************************)
MaxLen == 3          \* longest input text, in scalars
MaxBuf == 4          \* longest caller buffer, in units
MaxCodes == 3        \* longest integer sequence handed to from_ints_with_nul

MaxCalls == MaxLen + 2   \* cap on the caller loop's number of encode calls

\* TLC integers are 32 bit wide: usize is modelled UsizeBits wide.  The only
\* usize arithmetic that can wrap is `buffer.len() - 1`.
UsizeBits == 30

Kinds == {"Char8", "Char16"}
Builds == {"debug", "release"}   \* overflow checks on / off

\* Scalars the inputs are drawn from: NUL, LF, CR, 'A', U+00E9 (2 UTF-8 bytes,
\* fits Char8), U+0301 combining acute (Extend, fits Char16 only), U+1F600
\* (4 UTF-8 bytes, fits neither kind).
InputChars == {0, 10, 13, 65, 233, 769, 128512}

\* Values a caller's buffer may hold before the call.
FillUnits == {0, 88}

\* Integers handed to from_ints_with_nul, per integer representation.
CodeUnits(kind) == IF kind = "Char8" THEN {0, 65, 255} ELSE {0, 65, 55296, 65535}

SeqsUpTo(S, n) == UNION {[1..k -> S] : k \in 0..n}

(***************************************************************************)
(* chars.rs                                                                *)
(***************************************************************************)
NUL == 0
CARRIAGE_RETURN == 13
LINE_FEED == 10

\* TryFrom<char> for Char8 / Char16: the code point is range-checked, then
\* cast to the integer representation.
TryFromChar(kind, value) ==
    IF kind = "Char8"
    THEN IF value <= 255 THEN [ok |-> TRUE, int |-> value % 256]
                         ELSE [ok |-> FALSE, int |-> 0]
    ELSE IF value <= 65535 THEN [ok |-> TRUE, int |-> value % 65536]
                           ELSE [ok |-> FALSE, int |-> 0]

\* char::try_from(u32): a Unicode scalar value is not a surrogate.
IsScalarValue(v) == v >= 0 /\ v <= 1114111 /\ ~(v >= 55296 /\ v <= 57343)

\* From<u8> for Char8 (infallible) / TryFrom<u16> for Char16.
TryFromInt(kind, value) ==
    IF kind = "Char8"
    THEN [ok |-> TRUE, int |-> value]
    ELSE IF IsScalarValue(value) THEN TryFromChar("Char16", value)
                                 ELSE [ok |-> FALSE, int |-> 0]

(***************************************************************************)
(* str: UTF-8 widths and extended grapheme clusters                        *)
(***************************************************************************)
Utf8Len(c) == IF c < 128 THEN 1 ELSE IF c < 2048 THEN 2 ELSE IF c < 65536 THEN 3 ELSE 4

RECURSIVE StrLen(_)
StrLen(s) == IF s = <<>> THEN 0 ELSE Utf8Len(Head(s)) + StrLen(Tail(s))

\* Grapheme_Cluster_Break property, for the scalars of InputChars.
GCB(c) ==
    IF c = 13 THEN "CR"
    ELSE IF c = 10 THEN "LF"
    ELSE IF c < 32 \/ (c >= 127 /\ c <= 159) THEN "Control"
    ELSE IF c >= 768 /\ c <= 879 THEN "Extend"
    ELSE "Other"

\* UAX #29 rules GB3, GB4, GB5, GB9, GB999.
BreakBetween(prev, cur) ==
    IF GCB(prev) = "CR" /\ GCB(cur) = "LF" THEN FALSE
    ELSE IF GCB(prev) \in {"CR", "LF", "Control"} THEN TRUE
    ELSE IF GCB(cur) \in {"CR", "LF", "Control"} THEN TRUE
    ELSE IF GCB(cur) = "Extend" THEN FALSE
    ELSE TRUE

RECURSIVE GraphemeEnd(_, _)
GraphemeEnd(input, i) ==
    IF i = Len(input) \/ BreakBetween(input[i], input[i + 1]) THEN i
    ELSE GraphemeEnd(input, i + 1)

\* str::grapheme_indices(true): (byte offset, cluster) pairs.
RECURSIVE GraphemeIndicesFrom(_, _, _)
GraphemeIndicesFrom(input, i, off) ==
    IF i > Len(input) THEN <<>>
    ELSE LET e == GraphemeEnd(input, i)
             g == SubSeq(input, i, e)
         IN  <<[idx |-> off, str |-> g]>> \o GraphemeIndicesFrom(input, e + 1, off + StrLen(g))

GraphemeIndices(input) == GraphemeIndicesFrom(input, 1, 0)

\* str::char_indices(): (byte offset within the string, scalar) pairs.
CharIndices(s) ==
    [i \in 1..Len(s) |-> [idx |-> StrLen(SubSeq(s, 1, i - 1)), ch |-> s[i]]]

\* &input[from..]: the suffix starting at a byte offset; slicing off a char
\* boundary panics.
IsCharBoundary(s, from) == \E k \in 0..Len(s) : StrLen(SubSeq(s, 1, k)) = from

StrFrom(s, from) ==
    LET k == CHOOSE k \in 0..Len(s) : StrLen(SubSeq(s, 1, k)) = from
    IN  SubSeq(s, k + 1, Len(s))

(***************************************************************************)
(* strs.rs: encode                                                         *)
(***************************************************************************)
\* let buffer_capacity = buffer.len() - 1;
BufferCapacity(build, buffer) ==
    IF Len(buffer) = 0 /\ build = "debug"
    THEN [panic |-> TRUE, val |-> 0]
    ELSE [panic |-> FALSE, val |-> (Len(buffer) - 1) % (2 ^ UsizeBits)]

\* buffer[index] = unit, bounds-checked.
IndexWrite(s, index, unit) ==
    IF index < Len(s.buffer)
    THEN [s EXCEPT !.buffer[index + 1] = unit]
    ELSE [s EXCEPT !.flow = "panic"]

\* Variant: the capacity test is off by one (<= instead of <).
PushUnitOffByOne(s, cap, unit) ==
    IF s.output_idx <= cap
    THEN LET w == IndexWrite(s, s.output_idx, unit)
         IN  IF w.flow = "panic" THEN w ELSE [w EXCEPT !.output_idx = @ + 1]
    ELSE [s EXCEPT !.flow = "break"]

\* if output_idx < buffer_capacity { buffer[output_idx] = unit; output_idx += 1 }
\* else { break 'graphemes }
PushUnit(s, cap, unit) ==
    IF s.output_idx < cap
    THEN LET w == IndexWrite(s, s.output_idx, unit)
         IN  IF w.flow = "panic" THEN w ELSE [w EXCEPT !.output_idx = @ + 1]
    ELSE [s EXCEPT !.flow = "break"]

\* Body of the inner loop for one (input_idx, input_char).
EncodeChar(kind, cap, s, input_idx, input_char) ==
    IF input_char = NUL
    THEN [s EXCEPT !.flow = "return", !.err = "InteriorNul",
                   !.pos = input_idx]
    ELSE LET s1 == IF input_char = LINE_FEED
                   THEN PushUnit(s, cap, TryFromChar(kind, CARRIAGE_RETURN).int)
                   ELSE s
         IN  IF s1.flow # "run" THEN s1
             ELSE LET output_char == TryFromChar(kind, input_char)
                  IN  IF ~output_char.ok
                      THEN [s1 EXCEPT !.flow = "return", !.err = "UnsupportedChar",
                                      !.pos = input_idx]
                      ELSE PushUnit(s1, cap, output_char.int)

\* for (input_idx, input_char) in grapheme.char_indices() { ... }
RECURSIVE EncodeGrapheme(_, _, _, _, _)
EncodeGrapheme(kind, cap, s, chars, i) ==
    IF i > Len(chars) \/ s.flow # "run" THEN s
    ELSE EncodeGrapheme(kind, cap,
                        EncodeChar(kind, cap, s, chars[i].idx, chars[i].ch),
                        chars, i + 1)

\* Variant: the cursor advances by the cluster's scalar count, not its bytes.
CommitCharCount(s, grapheme_idx, grapheme) ==
    [s EXCEPT !.parsed_input_len = grapheme_idx + Len(grapheme),
              !.encoded_output_len = s.output_idx]

\* Every time we get through a grapheme cluster, advance public cursors.
Commit(s, grapheme_idx, grapheme) ==
    [s EXCEPT !.parsed_input_len = grapheme_idx + StrLen(grapheme),
              !.encoded_output_len = s.output_idx]

\* 'graphemes: for (grapheme_idx, grapheme) in input.grapheme_indices(true)
RECURSIVE EncodeGraphemes(_, _, _, _, _)
EncodeGraphemes(kind, cap, s, gs, j) ==
    IF j > Len(gs) THEN s
    ELSE LET s1 == EncodeGrapheme(kind, cap, s, CharIndices(gs[j].str), 1)
         IN  IF s1.flow # "run" THEN s1
             ELSE EncodeGraphemes(kind, cap, Commit(s1, gs[j].idx, gs[j].str), gs, j + 1)

\* Variant: the no-progress check is dropped.
NoProgressNever(parsed_input_len, input) == FALSE

\* Treat failure to make any progress as an error.
NoProgress(parsed_input_len, input) == parsed_input_len = 0 /\ input # <<>>

\* CStr::from_ints_with_nul_unchecked(codes): the view is the slice it is given.
FromIntsWithNulUnchecked(codes) == codes

\* CStr::to_ints_slice_with_nul / to_ints_slice.
ToIntsSliceWithNul(view) == view
ToIntsSlice(view) == SubSeq(ToIntsSliceWithNul(view), 1, Len(ToIntsSliceWithNul(view)) - 1)

NoStr == [some |-> FALSE, str |-> <<>>]
SomeStr(s) == [some |-> TRUE, str |-> s]

\* The value an encode call ends with: tag is "Ok", "Err" or "Panic".
Outcome(tag, err, pos, s, input, view, rem) ==
    [tag |-> tag, err |-> err, pos |-> pos, view |-> view, remainder |-> rem,
     buffer |-> s.buffer, parsed_input_len |-> s.parsed_input_len,
     encoded_output_len |-> s.encoded_output_len, output_idx |-> s.output_idx,
     input |-> input]

encode(kind, build, input, buffer) ==
    LET s0 == [buffer |-> buffer, parsed_input_len |-> 0, encoded_output_len |-> 0,
               output_idx |-> 0, flow |-> "run", err |-> "", pos |-> 0]
        cap == BufferCapacity(build, buffer)
    IN  IF cap.panic THEN Outcome("Panic", "", 0, s0, input, <<>>, NoStr)
        ELSE
        LET s1 == EncodeGraphemes(kind, cap.val, s0, GraphemeIndices(input), 1)
        IN  IF s1.flow = "panic" THEN Outcome("Panic", "", 0, s1, input, <<>>, NoStr)
            ELSE IF s1.flow = "return" THEN Outcome("Err", s1.err, s1.pos, s1, input, <<>>, NoStr)
            ELSE IF NoProgress(s1.parsed_input_len, input)
            THEN Outcome("Err", "BufferTooSmall", 0, s1, input, <<>>, NoStr)
            ELSE
            LET s2 == IndexWrite(s1, s1.encoded_output_len, TryFromChar(kind, NUL).int)
            IN  IF s2.flow = "panic" THEN Outcome("Panic", "", 0, s2, input, <<>>, NoStr)
                ELSE IF s2.parsed_input_len < StrLen(input)
                THEN IF IsCharBoundary(input, s2.parsed_input_len)
                     THEN Outcome("Ok", "", 0, s2, input, FromIntsWithNulUnchecked(s2.buffer),
                                  SomeStr(StrFrom(input, s2.parsed_input_len)))
                     ELSE Outcome("Panic", "", 0, s2, input, <<>>, NoStr)
                ELSE Outcome("Ok", "", 0, s2, input, FromIntsWithNulUnchecked(s2.buffer), NoStr)

(***************************************************************************)
(* strs.rs: CStr::from_ints_with_nul                                       *)
(***************************************************************************)
\* Variant: the last position is taken to be codes.len().
IsLastPosOffByOne(pos, codes) == pos = Len(codes)

\* if pos != codes.len() - 1
IsLastPos(pos, codes) == pos = Len(codes) - 1

RECURSIVE FromIntsScan(_, _, _)
FromIntsScan(kind, codes, pos) ==
    IF pos >= Len(codes) THEN [tag |-> "Err", err |-> "NotNulTerminated", pos |-> 0, view |-> <<>>]
    ELSE LET c == TryFromInt(kind, codes[pos + 1])
         IN  IF c.ok /\ c.int = NUL
             THEN IF ~IsLastPos(pos, codes)
                  THEN [tag |-> "Err", err |-> "InteriorNul", pos |-> pos, view |-> <<>>]
                  ELSE [tag |-> "Ok", err |-> "", pos |-> 0,
                        view |-> FromIntsWithNulUnchecked(codes)]
             ELSE IF ~c.ok
             THEN [tag |-> "Err", err |-> "InvalidChar", pos |-> pos, view |-> <<>>]
             ELSE FromIntsScan(kind, codes, pos + 1)

from_ints_with_nul(kind, codes) == FromIntsScan(kind, codes, 0)

(***************************************************************************)
(* State: one caller that encodes a text and re-encodes each remainder     *)
(* into a fresh buffer, and one caller that validates an integer sequence. *)
(***************************************************************************)
VARIABLES kind, build, orig, input, buffer, res, calls, units, pc, codes, vres

vars == <<kind, build, orig, input, buffer, res, calls, units, pc, codes, vres>>

NoRes == [tag |-> "None", err |-> "", pos |-> 0, view |-> <<>>, remainder |-> NoStr,
          buffer |-> <<>>, parsed_input_len |-> 0, encoded_output_len |-> 0,
          output_idx |-> 0, input |-> <<>>]

NoVRes == [tag |-> "None", err |-> "", pos |-> 0, view |-> <<>>]

Buffers == UNION {[1..n -> FillUnits] : n \in 0..MaxBuf}

Init ==
    /\ kind \in Kinds
    /\ build \in Builds
    /\ orig \in SeqsUpTo(InputChars, MaxLen)
    /\ input = orig
    /\ buffer \in Buffers
    /\ res = NoRes
    /\ calls = 0
    /\ units = <<>>
    /\ pc = "start"
    /\ codes = <<>>
    /\ vres = NoVRes

\* The caller's first call: encode(input, &mut buffer).
Encode ==
    /\ pc = "start"
    /\ res' = encode(kind, build, input, buffer)
    /\ buffer' = res'.buffer
    /\ calls' = calls + 1
    /\ units' = IF res'.tag = "Ok" THEN ToIntsSlice(res'.view) ELSE units
    /\ pc' = "returned"
    /\ UNCHANGED <<kind, build, orig, input, codes, vres>>

\* The caller's loop: encode the returned remainder into a fresh buffer.
EncodeRemainder ==
    /\ pc = "returned"
    /\ res.tag = "Ok"
    /\ res.remainder.some
    /\ calls < MaxCalls
    /\ \E fresh \in Buffers :
          /\ input' = res.remainder.str
          /\ res' = encode(kind, build, res.remainder.str, fresh)
          /\ buffer' = res'.buffer
    /\ calls' = calls + 1
    /\ units' = IF res'.tag = "Ok" THEN units \o ToIntsSlice(res'.view) ELSE units
    /\ UNCHANGED <<kind, build, orig, pc, codes, vres>>

Next == Encode \/ EncodeRemainder

Spec == Init /\ [][Next]_vars

\* Validation of an integer sequence.
InitValidate ==
    /\ kind \in Kinds
    /\ build = "debug"
    /\ orig = <<>>
    /\ input = <<>>
    /\ buffer = <<>>
    /\ res = NoRes
    /\ calls = 0
    /\ units = <<>>
    /\ pc = "start"
    /\ codes \in SeqsUpTo(CodeUnits(kind), MaxCodes)
    /\ vres = NoVRes

Validate ==
    /\ pc = "start"
    /\ vres' = from_ints_with_nul(kind, codes)
    /\ pc' = "returned"
    /\ UNCHANGED <<kind, build, orig, input, buffer, res, calls, units, codes>>

NextValidate == Validate

SpecValidate == InitValidate /\ [][NextValidate]_vars

TypeOK ==
    /\ pc \in {"start", "returned"}
    /\ res.tag \in {"None", "Ok", "Err", "Panic"}
    /\ vres.tag \in {"None", "Ok", "Err"}

(***************************************************************************)
(* Vocabulary of the properties                                            *)
(***************************************************************************)
Representable(k, c) == c <= (IF k = "Char8" THEN 255 ELSE 65535)

\* The units a text stands for: scalar ordinals, every line-feed preceded by
\* a carriage-return.
RECURSIVE Expand(_)
Expand(s) ==
    IF s = <<>> THEN <<>>
    ELSE (IF Head(s) = 10 THEN <<13, 10>> ELSE <<Head(s)>>) \o Expand(Tail(s))

ByteOffset(s, i) == StrLen(SubSeq(s, 1, i - 1))

NulOffsets(s) == {ByteOffset(s, i) : i \in {j \in 1..Len(s) : s[j] = 0}}

UnsupportedOffsets(k, s) ==
    {ByteOffset(s, i) : i \in {j \in 1..Len(s) : ~Representable(k, s[j])}}

ContentClean(k, s) == NulOffsets(s) = {} /\ UnsupportedOffsets(k, s) = {}

\* k scalars of s end at a grapheme-cluster boundary.
ClusterBoundary(s, k) == k = 0 \/ k = Len(s) \/ BreakBetween(s[k], s[k + 1])

Returned == pc = "returned" /\ res.tag # "None"

ZeroBuffer(n) == [i \in 1..n |-> 0]

\* The call's buffer holds the whole text, line-feeds doubled, and the NUL.
RoomForAll(r) == Len(r.buffer) >= Len(Expand(r.input)) + 1

(***************************************************************************)
(* Properties of encode                                                    *)
(***************************************************************************)
\* C1: whenever encode returns success on a buffer of length >= 1, the
\* returned view is the committed output units followed by exactly one NUL:
\* its length is committed length + 1, its last element is NUL and no
\* earlier element is NUL.
C1_ViewIsCommittedPlusNul ==
    (Returned /\ res.tag = "Ok") =>
        /\ Len(res.view) = res.encoded_output_len + 1
        /\ res.view[Len(res.view)] = NUL
        /\ \A i \in 1..(Len(res.view) - 1) : res.view[i] # NUL

\* C2: a text containing a NUL scalar at any position fails with
\* InteriorNul(k), k the byte offset of a NUL within the whole text, and never
\* succeeds.  Stated for the calls whose buffer has room for the whole text
\* and the terminator, where capacity cannot interfere.
C2_InteriorNulAtInputOffset ==
    (Returned /\ RoomForAll(res) /\ NulOffsets(res.input) # {}) =>
        /\ res.tag = "Err"
        /\ res.err = "InteriorNul"
        /\ res.pos \in NulOffsets(res.input)

\* C3: a text (without NUL) that contains a scalar the kind cannot represent
\* fails with UnsupportedChar carrying that scalar's byte offset in the text,
\* never with a partial success.  Stated for the calls whose buffer has room
\* for the whole text and the terminator, where capacity cannot interfere.
C3_UnsupportedCharAtInputOffset ==
    (Returned /\ RoomForAll(res) /\ NulOffsets(res.input) = {}
              /\ UnsupportedOffsets(kind, res.input) # {}) =>
        /\ res.tag = "Err"
        /\ res.err = "UnsupportedChar"
        /\ res.pos \in UnsupportedOffsets(kind, res.input)

\* C4: truncation is grapheme-atomic.  On success the consumed prefix ends at
\* a cluster boundary, the committed output is the encoding of exactly the
\* clusters of that prefix (no unit of a partially written cluster, nor a
\* carriage-return whose line-feed did not fit, is counted), and the
\* remainder is the text from the first uncommitted cluster on.
C4_GraphemeAtomicTruncation ==
    (Returned /\ res.tag = "Ok") =>
        \E k \in 0..Len(res.input) :
            /\ ClusterBoundary(res.input, k)
            /\ res.parsed_input_len = StrLen(SubSeq(res.input, 1, k))
            /\ res.encoded_output_len = Len(Expand(SubSeq(res.input, 1, k)))
            /\ SubSeq(res.buffer, 1, res.encoded_output_len) = Expand(SubSeq(res.input, 1, k))
            /\ res.remainder = IF k < Len(res.input)
                               THEN SomeStr(SubSeq(res.input, k + 1, Len(res.input)))
                               ELSE NoStr

\* C4 witness: a success that stopped inside a cluster, units of which were
\* written past the committed length.
C4_Witness ==
    /\ Returned /\ res.tag = "Ok" /\ res.remainder.some
    /\ res.output_idx > res.encoded_output_len + 1

\* C5: a text with no NUL and only representable scalars, encoded into a
\* buffer at least as long as the text with line-feeds doubled plus the
\* terminator, succeeds with no remainder, and the view without its
\* terminator is the text's ordinals with each LF replaced by CR LF.
C5_RoundTrip ==
    (Returned /\ calls = 1 /\ ContentClean(kind, orig)
              /\ Len(res.buffer) >= Len(Expand(orig)) + 1) =>
        /\ res.tag = "Ok"
        /\ ~res.remainder.some
        /\ ToIntsSlice(res.view) = Expand(orig)

\* C6: continuation.  When a first encode returned a remainder and encoding
\* the remainder consumed all of it, the units of the first view followed by
\* the units of the second are the units of encoding the whole text into a
\* buffer that holds all of it.
C6_Continuation ==
    (Returned /\ calls = 2 /\ res.tag = "Ok" /\ ~res.remainder.some
              /\ ContentClean(kind, orig)) =>
        units = ToIntsSlice(encode(kind, build, orig,
                                   ZeroBuffer(Len(Expand(orig)) + 1)).view)

\* C7 (as stated): encoding a non-empty text into a buffer of length 1 fails
\* with BufferTooSmall whatever its first scalar is.
C7_AlwaysBufferTooSmall ==
    (Returned /\ Len(res.buffer) = 1 /\ res.input # <<>>) =>
        (res.tag = "Err" /\ res.err = "BufferTooSmall")

\* C7 (amended): encoding a non-empty text into a buffer of length 1 fails:
\* with InteriorNul(0) when the first scalar is NUL, with UnsupportedChar(0)
\* when the first scalar is not representable in the kind, and
\* with BufferTooSmall otherwise.
C7_LengthOneBuffer ==
    (Returned /\ Len(res.buffer) = 1 /\ res.input # <<>>) =>
        /\ res.tag = "Err"
        /\ res.err = IF res.input[1] = NUL THEN "InteriorNul"
                     ELSE IF ~Representable(kind, res.input[1]) THEN "UnsupportedChar"
                     ELSE "BufferTooSmall"
        /\ res.pos = 0

\* C7 witness: a line-feed first, length-1 buffer, BufferTooSmall.
C7_Witness ==
    /\ Returned /\ Len(res.buffer) = 1 /\ Len(res.input) >= 2
    /\ res.input[1] = LINE_FEED /\ res.err = "BufferTooSmall"

\* C9: progress.  A successful encode of a non-empty text commits at least
\* one whole cluster, so a returned remainder is strictly shorter than (and
\* differs from) the text; the caller loop over remainders makes at most one
\* call per scalar of the original text, and each call into a buffer of the
\* size a successful call was given (hence >= 1) ends with Ok or with
\* BufferTooSmall, UnsupportedChar or InteriorNul.
C9_Progress ==
    Returned =>
        /\ (res.tag = "Ok" /\ res.input # <<>>) =>
              /\ res.parsed_input_len >= StrLen(SubSeq(res.input, 1, GraphemeEnd(res.input, 1)))
              /\ res.parsed_input_len > 0
              /\ res.remainder.some =>
                    /\ StrLen(res.remainder.str) < StrLen(res.input)
                    /\ res.remainder.str # res.input
        /\ calls <= (IF Len(orig) = 0 THEN 1 ELSE Len(orig))
        /\ Len(res.buffer) >= 1 =>
              \/ res.tag = "Ok"
              \/ res.tag = "Err" /\ res.err \in {"BufferTooSmall", "UnsupportedChar", "InteriorNul"}

\* C9 witness: the loop ran to the end of a text in as many calls as the
\* text has scalars, more than one.
C9_Witness ==
    /\ Returned /\ calls = Len(orig) /\ calls >= 3
    /\ res.tag = "Ok" /\ ~res.remainder.some

\* C10: encode never faults: for every input and every buffer length,
\* length 0 included, the call ends by returning Ok or Err.
C10_NeverFaults == Returned => res.tag \in {"Ok", "Err"}

(***************************************************************************)
(* Properties of from_ints_with_nul                                        *)
(***************************************************************************)
Converts(k, v) == k = "Char8" \/ ~(v >= 55296 /\ v <= 57343)

Offending(k, cs, i) ==
    \/ ~Converts(k, cs[i + 1])
    \/ cs[i + 1] = 0 /\ i # Len(cs) - 1

\* C8: from_ints_with_nul succeeds iff the sequence is non-empty, every
\* element converts, the last element is NUL and no earlier one is.
\* Otherwise it reports the smallest offending index: InvalidChar(i) when
\* element i does not convert, InteriorNul(i) when it is a NUL before the
\* last index; NotNulTerminated when no index offends.
C8_ValidateEarliestOffence ==
    (pc = "returned" /\ vres.tag # "None") =>
        LET n == Len(codes)
            bad == {i \in 0..(n - 1) : Offending(kind, codes, i)}
            valid == /\ n >= 1
                     /\ \A i \in 0..(n - 1) : Converts(kind, codes[i + 1])
                     /\ codes[n] = 0
                     /\ \A i \in 0..(n - 2) : codes[i + 1] # 0
        IN  /\ vres.tag = "Ok" <=> valid
            /\ vres.tag = "Ok" => vres.view = codes
            /\ (~valid /\ bad # {}) =>
                  LET i == CHOOSE j \in bad : \A m \in bad : j <= m
                  IN  /\ vres.tag = "Err"
                      /\ vres.pos = i
                      /\ vres.err = IF ~Converts(kind, codes[i + 1]) THEN "InvalidChar"
                                    ELSE "InteriorNul"
            /\ (~valid /\ bad = {}) => (vres.tag = "Err" /\ vres.err = "NotNulTerminated")

\* C8 witness: a sequence of the longest length whose only NUL is its last
\* element has been validated and accepted.
C8_Witness ==
    /\ pc = "returned" /\ vres.tag = "Ok" /\ Len(codes) = MaxCodes
    /\ codes[Len(codes)] = 0
====
